---- MODULE Spec2Model ----
(***************************************************************************)
(* A model of the Toolbox library: the Dataset class of                    *)
(* toolbox/pytorch/data/datasets.py (construction, splitting into subsets, *)
(* shuffling, __len__, __getitem__) and the training loop of               *)
(* toolbox/pytorch/model/training.py (lifecycle hooks, KeyboardInterrupt). *)
(*                                                                         *)
(* Python values are represented as follows.                               *)
(*   - a list is a sequence; Python index i is TLA+ index i + 1;           *)
(*   - a data entry is a record [row |-> i];                               *)
(*   - an optional value (None or v) is the sequence << >> or << v >>;     *)
(*   - **kwargs is a function from the keyword names given to values;      *)
(*   - a dict (the split) is a sequence of [name, size] items in insertion *)
(*     order, names distinct;                                              *)
(*   - a float of a split is an exact multiple of 1/Denom, held as its     *)
(*     numerator, so  total <= 1  reads  total <= Denom;                   *)
(*   - the random module's hidden generator is the variable rng, a small   *)
(*     deterministic generator: seeding sets the state, every draw         *)
(*     advances it.                                                        *)
(***************************************************************************)
EXTENDS Integers, Sequences, FiniteSets, TLC

----------------------------------------------------------------------------
(* Bounds of the model. *)

\* the longest data list given to a Dataset
MaxN == 3
\* the largest count an integer split gives one subset
MaxCount == 3
\* fractions of a float split are k/Denom, k in 0..Denom
Denom == 4
\* the most subsets a caller names in one split
MaxSubsets == 2
\* the number of states of the random generator
RngMod == 3
\* the largest seed a caller gives
MaxSeed == 1
\* the largest nr_of_epochs, and the largest start_at_epoch
MaxEpochs == 2
\* the most batches the train_loader yields, and the largest start_at_batch
MaxBatches == 2
\* the most KeyboardInterrupts raised during one run of the loop
MaxInterrupts == 2

VARIABLES
    rng,        \* state of the random module's global generator
    call,       \* the arguments of the Dataset(...) call made, or << >>
    ds,         \* << >>, or << the Dataset object the call built >>
    ds2,        \* << >>, or << the object the same call built a second time >>
    got,        \* << >>, or << the last ds[idx] evaluated >>
    loop,       \* << >>, or << the DefaultTrainLoop object's attributes >>
    pc,         \* where _default_training_loop stands
    start_at,   \* the arguments start_at_epoch, start_at_batch of the run
    epoch,      \* the loop variable epoch
    batch,      \* the loop variable batch
    trace,      \* the hooks invoked so far, in order
    interrupts  \* the number of KeyboardInterrupts raised so far

datavars == <<rng, call, ds, ds2, got>>
trainvars == <<loop, pc, start_at, epoch, batch, trace, interrupts>>
vars == <<rng, call, ds, ds2, got, loop, pc, start_at, epoch, batch, trace, interrupts>>

----------------------------------------------------------------------------
(* Python helpers. *)

None == << >>
Some(v) == << v >>

Min(a, b) == IF a <= b THEN a ELSE b

\* kwargs.get(key): None when the key is absent
KwGet(kwargs, key) == IF key \in DOMAIN kwargs THEN Some(kwargs[key]) ELSE None

\* kwargs.pop(key, None): kwargs without the key
KwPop(kwargs, key) == [k \in (DOMAIN kwargs) \ {key} |-> kwargs[k]]

\* data[lo:hi] for 0 <= lo, 0 <= hi: the slice is clipped to the list
PySlice(data, lo, hi) == SubSeq(data, Min(lo, Len(data)) + 1, Min(hi, Len(data)))

\* sum(split.values()) over the items i..Len(items)
RECURSIVE SumFrom(_, _)
SumFrom(items, i) ==
    IF i > Len(items) THEN 0 ELSE items[i].size + SumFrom(items, i + 1)

DictKeys(items) == {items[i].name : i \in 1..Len(items)}

\* split[name] = size: an existing key keeps its place, a new key is appended
DictSet(items, name, size) ==
    IF name \in DictKeys(items)
    THEN [i \in 1..Len(items) |->
            IF items[i].name = name THEN [name |-> name, size |-> size] ELSE items[i]]
    ELSE Append(items, [name |-> name, size |-> size])

\* sum([ord(c) for c in name])
NameOrd(name) ==
    CASE name = "a" -> 97
      [] name = "b" -> 98
      [] name = "rest" -> 114 + 101 + 115 + 116

----------------------------------------------------------------------------
(* The random module. *)

\* one draw of the generator
RngStep(r) == (r + 1) % RngMod

\* random.seed(seed)
RandomSeed(seed) == seed % RngMod

Swap(x, i, j) ==
    [k \in 1..Len(x) |-> IF k = i THEN x[j] ELSE IF k = j THEN x[i] ELSE x[k]]

\* random.shuffle(x): for i in reversed(range(1, len(x))): j = randbelow(i + 1);
\* x[i], x[j] = x[j], x[i].  Here i is the 1-based position.
RECURSIVE ShuffleFrom(_, _, _)
ShuffleFrom(x, i, r) ==
    IF i < 2 THEN [data |-> x, rng |-> r]
    ELSE LET r2 == RngStep(r)
             j == (r2 % i) + 1
         IN ShuffleFrom(Swap(x, i, j), i - 1, r2)

RandomShuffle(x, r) == ShuffleFrom(x, Len(x), r)

----------------------------------------------------------------------------
(* class Dataset. *)

\* Dataset._randomise_data(self, seed=None, **kwargs)
RandomiseData(self, kwargs, r) ==
    LET seed == KwGet(kwargs, "seed")
        \* kwargs.get gives the value passed; a value of None counts as None
        given == IF seed = None THEN None ELSE seed[1]
        r1 == IF given # None THEN RandomSeed(given[1]) ELSE r
        sh == RandomShuffle(self.data, r1)
    IN [ds |-> [self EXCEPT !.data = sh.data], rng |-> sh.rng]

\* _float_split_to_int dividing by sum(subset_sizes) instead of sum(subset_sizes[i:])
RECURSIVE FloatSplitToIntWholeSum(_, _, _)
FloatSplitToIntWholeSum(items, i, data_entries) ==
    IF i > Len(items) THEN << >>
    ELSE LET size == (data_entries * items[i].size) \div SumFrom(items, 1)
         IN <<[name |-> items[i].name, size |-> size]>>
                \o FloatSplitToIntWholeSum(items, i + 1, data_entries - size)

\* Dataset._float_split_to_int(self, split), from item i on, with data_entries left
RECURSIVE FloatSplitToInt(_, _, _)
FloatSplitToInt(items, i, data_entries) ==
    IF i > Len(items) THEN << >>
    ELSE LET size == (data_entries * items[i].size) \div SumFrom(items, i)
         IN <<[name |-> items[i].name, size |-> size]>>
                \o FloatSplitToInt(items, i + 1, data_entries - size)

\* length / sum(subset_sizes[i:]) divides by zero for some item
FloatSplitDividesByZero(items) == \E i \in 1..Len(items) : SumFrom(items, i) = 0

RECURSIVE DatasetInit(_, _, _, _)

\* the loop "for name, length in split.items()" of Dataset._split, from item i on
RECURSIVE MakeSubsets(_, _, _, _, _, _, _)
MakeSubsets(self, items, i, index, randomise, kwargs, r) ==
    IF i > Len(items) THEN [subsets |-> << >>, rng |-> r]
    ELSE LET name == items[i].name
             length == items[i].size
             subset_name == Append(self.name, name)
             subset_data == PySlice(self.data, index, index + length)
             subset_seed == IF self.seed # None
                            THEN Some(self.seed[1] + NameOrd(name) + length)
                            ELSE None
             made == DatasetInit(subset_name, subset_data,
                                 [k \in (DOMAIN kwargs) \cup {"randomise", "seed"} |->
                                     IF k = "randomise" THEN randomise
                                     ELSE IF k = "seed" THEN subset_seed
                                     ELSE kwargs[k]],
                                 r)
             tail == MakeSubsets(self, items, i + 1, index + length, randomise,
                                 kwargs, made.rng)
         IN [subsets |-> <<made.ds>> \o tail.subsets, rng |-> tail.rng]

\* assert total <= 1 (the float split asks for at most 100%)
FloatSplitFits(total) == total <= Denom

\* if total < 1: split['rest'] = 1 - total
FloatSplitWithRest(items) ==
    LET total == SumFrom(items, 1)
    IN IF total < Denom THEN DictSet(items, "rest", Denom - total) ELSE items

\* the assertion on the count left out
IntSplitFitsUnchecked(total, data) == TRUE

\* assert total <= len(self.data)
IntSplitFits(total, data) == total <= Len(data)

\* if total < len(self.data): split['rest'] = len(self.data) - total
IntSplitWithRest(items, data) ==
    LET total == SumFrom(items, 1)
    IN IF total < Len(data) THEN DictSet(items, "rest", Len(data) - total) ELSE items

\* Dataset._split(self, split, randomise=False, **kwargs)
DatasetSplit(self, kw, r) ==
    LET split == kw["split"]
        randomise == IF "randomise" \in DOMAIN kw THEN kw["randomise"] ELSE FALSE
        kwargs == KwPop(KwPop(kw, "split"), "randomise")
        isfloat == split.kind = "float"
        withrest == FloatSplitWithRest(split.items)
        ints == IF isfloat THEN FloatSplitToInt(withrest, 1, Len(self.data))
                ELSE split.items
        final == IntSplitWithRest(ints, self.data)
        made == MakeSubsets(self, final, 1, 0, randomise, kwargs, r)
    IN IF isfloat /\ ~FloatSplitFits(SumFrom(split.items, 1))
       THEN [ds |-> [self EXCEPT !.status = "AssertionError"], rng |-> r]
       ELSE IF isfloat /\ FloatSplitDividesByZero(withrest)
       THEN [ds |-> [self EXCEPT !.status = "ZeroDivisionError"], rng |-> r]
       ELSE IF ~IntSplitFits(SumFrom(ints, 1), self.data)
       THEN [ds |-> [self EXCEPT !.status = "AssertionError"], rng |-> r]
       ELSE [ds |-> [self EXCEPT !.attrs = DictKeys(final),
                                 !.data = made.subsets,
                                 !.is_superset = TRUE],
             rng |-> made.rng]

\* Dataset.__init__(self, name, data, **kwargs)
DatasetInit(name, data, kwargs, r) ==
    LET seed == KwGet(kwargs, "seed")
        kw == KwPop(kwargs, "seed")
        self == [name |-> name,
                 data |-> data,
                 seed |-> IF seed = None THEN None ELSE seed[1],
                 is_superset |-> FALSE,
                 attrs |-> {},
                 status |-> "ok"]
    IN IF "split" \in DOMAIN kw THEN DatasetSplit(self, kw, r)
       ELSE IF "randomise" \in DOMAIN kw THEN RandomiseData(self, kw, r)
       ELSE [ds |-> self, rng |-> r]

\* Dataset.__len__(self)
RECURSIVE DatasetLen(_)
RECURSIVE SumLen(_, _)
SumLen(subsets, i) ==
    IF i > Len(subsets) THEN 0 ELSE DatasetLen(subsets[i]) + SumLen(subsets, i + 1)

DatasetLen(self) ==
    IF self.is_superset THEN SumLen(self.data, 1) ELSE Len(self.data)

\* Dataset.__getitem__(self, idx), 0 <= idx: the value returned (val holds it),
\* None when the method falls off its end, or the IndexError of the list
RECURSIVE DatasetGetItem(_, _)
RECURSIVE GetItemFrom(_, _, _)
GetItemFrom(subsets, i, idx) ==
    IF i > Len(subsets) THEN [kind |-> "None", val |-> None]
    ELSE IF idx >= DatasetLen(subsets[i]) THEN GetItemFrom(subsets, i + 1, idx)
    ELSE DatasetGetItem(subsets[i], idx)

DatasetGetItem(self, idx) ==
    IF self.is_superset THEN GetItemFrom(self.data, 1, idx)
    ELSE IF idx < Len(self.data) THEN [kind |-> "value", val |-> Some(self.data[idx + 1])]
    ELSE [kind |-> "IndexError", val |-> None]

----------------------------------------------------------------------------
(* The calls a program makes. *)

\* a data entry: an opaque row of the application, told apart by its number
Row(i) == [row |-> i]

\* a data list of n distinct rows in a known order
Records(n) == [i \in 1..n |-> Row(i)]

SubsetNames == {"a", "b", "rest"}

\* the dicts with at most MaxSubsets distinct keys and values in sizes
RECURSIVE ItemSeqs(_, _)
ItemSeqs(k, sizes) ==
    IF k = 0 THEN {<< >>}
    ELSE LET shorter == ItemSeqs(k - 1, sizes)
         IN shorter \cup
            {Append(s, [name |-> n, size |-> v]) :
                s \in {t \in shorter : Len(t) = k - 1},
                n \in SubsetNames, v \in sizes}

Dicts(sizes) ==
    {s \in ItemSeqs(MaxSubsets, sizes) :
        \A i, j \in 1..Len(s) : i # j => s[i].name # s[j].name}

Splits ==
    {[kind |-> "int", items |-> s] : s \in Dicts(0..MaxCount)}
        \cup {[kind |-> "float", items |-> s] : s \in Dicts(0..Denom) \ {<< >>}}

\* the keyword arguments of a call: those of split, randomise and seed named in keys
KwargsOf(keys, split, randomise, seed) ==
    [k \in keys |->
        IF k = "split" THEN split
        ELSE IF k = "randomise" THEN randomise
        ELSE Some(seed)]

Init ==
    /\ rng \in 0..(RngMod - 1)
    /\ call = << >>
    /\ ds = << >>
    /\ ds2 = << >>
    /\ got = << >>
    /\ loop = << >>
    /\ pc = "none"
    /\ start_at = [epoch |-> 1, batch |-> 1]
    /\ epoch = 0
    /\ batch = 0
    /\ trace = << >>
    /\ interrupts = 0

\* Dataset('d', data, **kwargs), with any of split, randomise and seed given
Construct ==
    /\ call = << >>
    /\ \E n \in 0..MaxN,
          keys \in SUBSET {"split", "randomise", "seed"},
          split \in Splits,
          randomise \in BOOLEAN,
          seed \in 0..MaxSeed :
          \* an argument that is not given has no value to choose
          /\ "split" \notin keys => split = [kind |-> "int", items |-> << >>]
          /\ "randomise" \notin keys => randomise = FALSE
          /\ "seed" \notin keys => seed = 0
          /\ LET kwargs == KwargsOf(keys, split, randomise, seed)
                 made == DatasetInit(<<"d">>, Records(n), kwargs, rng)
             IN /\ call' = <<[n |-> n, kwargs |-> kwargs, rng |-> rng]>>
                /\ ds' = <<made.ds>>
                /\ rng' = made.rng
    /\ UNCHANGED <<ds2, got>>
    /\ UNCHANGED trainvars

\* the same call once more, later in the program
ConstructAgain ==
    /\ call # << >>
    /\ ds2 = << >>
    /\ LET made == DatasetInit(<<"d">>, Records(call[1].n), call[1].kwargs, rng)
       IN /\ ds2' = <<made.ds>>
          /\ rng' = made.rng
    /\ UNCHANGED <<call, ds, got>>
    /\ UNCHANGED trainvars

\* dataset[idx] on the object built
GetItem ==
    /\ ds # << >>
    /\ ds[1].status = "ok"
    /\ \E idx \in 0..MaxN :
          got' = <<[idx |-> idx, item |-> DatasetGetItem(ds[1], idx)]>>
    /\ UNCHANGED <<rng, call, ds, ds2>>
    /\ UNCHANGED trainvars

----------------------------------------------------------------------------
(* class DefaultTrainLoop. *)

Hook(name, e, b) == [hook |-> name, epoch |-> e, batch |-> b]

\* DefaultTrainLoop(model, train_loader, criterion, nr_of_epochs=...): the
\* attributes the loop reads; the train_loader yields train_loader batches
NewTrainLoop ==
    /\ pc = "none"
    /\ \E e \in 0..MaxEpochs, b \in 0..MaxBatches :
          loop' = <<[nr_of_epochs |-> e, train_loader |-> b]>>
    /\ pc' = "idle"
    /\ UNCHANGED <<start_at, epoch, batch, trace, interrupts>>
    /\ UNCHANGED datavars

\* _default_training_loop(start_at_epoch, start_at_batch) is called
CallTrainingLoop ==
    /\ pc = "idle"
    /\ \E e \in 1..MaxEpochs, b \in 1..MaxBatches :
          start_at' = [epoch |-> e, batch |-> b]
    /\ pc' = "on_start_of_training"
    /\ UNCHANGED <<loop, epoch, batch, trace, interrupts>>
    /\ UNCHANGED datavars

\* if start_at_epoch == 1 and start_at_batch == 1: self.on_start_of_training()
OnStartOfTraining ==
    /\ pc = "on_start_of_training"
    /\ trace' = IF start_at.epoch = 1 /\ start_at.batch = 1
                THEN Append(trace, Hook("on_start_of_training", 0, 0))
                ELSE trace
    /\ epoch' = start_at.epoch
    /\ pc' = "for_epoch"
    /\ UNCHANGED <<loop, start_at, batch, interrupts>>
    /\ UNCHANGED datavars

\* for epoch in range(start_at_epoch, self.nr_of_epochs+1)
ForEpoch ==
    /\ pc = "for_epoch"
    /\ pc' = IF epoch <= loop[1].nr_of_epochs
             THEN "on_start_of_epoch" ELSE "on_end_of_training"
    /\ UNCHANGED <<loop, start_at, epoch, batch, trace, interrupts>>
    /\ UNCHANGED datavars

\* self.on_start_of_epoch(epoch), then the batch loop starts at batch 1
OnStartOfEpoch ==
    /\ pc = "on_start_of_epoch"
    /\ trace' = Append(trace, Hook("on_start_of_epoch", epoch, 0))
    /\ batch' = 1
    /\ pc' = "for_batch"
    /\ UNCHANGED <<loop, start_at, epoch, interrupts>>
    /\ UNCHANGED datavars

\* the batch loop skipping batch start_at_batch too (<= for <)
ForBatchOffByOne ==
    /\ pc = "for_batch"
    /\ IF batch > loop[1].train_loader
       THEN pc' = "on_end_of_epoch" /\ batch' = batch
       ELSE IF batch <= start_at.batch
       THEN pc' = "for_batch" /\ batch' = batch + 1
       ELSE pc' = "on_start_of_batch" /\ batch' = batch
    /\ UNCHANGED <<loop, start_at, epoch, trace, interrupts>>
    /\ UNCHANGED datavars

\* for batch, data in enumerate(self.train_loader, 1):
\*     if batch < start_at_batch: continue
ForBatch ==
    /\ pc = "for_batch"
    /\ IF batch > loop[1].train_loader
       THEN pc' = "on_end_of_epoch" /\ batch' = batch
       ELSE IF batch < start_at.batch
       THEN pc' = "for_batch" /\ batch' = batch + 1
       ELSE pc' = "on_start_of_batch" /\ batch' = batch
    /\ UNCHANGED <<loop, start_at, epoch, trace, interrupts>>
    /\ UNCHANGED datavars

\* self.on_start_of_batch(epoch, batch, data)
OnStartOfBatch ==
    /\ pc = "on_start_of_batch"
    /\ trace' = Append(trace, Hook("on_start_of_batch", epoch, batch))
    /\ pc' = "on_end_of_batch"
    /\ UNCHANGED <<loop, start_at, epoch, batch, interrupts>>
    /\ UNCHANGED datavars

\* self.on_end_of_batch(epoch, batch, data), then the next batch
OnEndOfBatch ==
    /\ pc = "on_end_of_batch"
    /\ trace' = Append(trace, Hook("on_end_of_batch", epoch, batch))
    /\ batch' = batch + 1
    /\ pc' = "for_batch"
    /\ UNCHANGED <<loop, start_at, epoch, interrupts>>
    /\ UNCHANGED datavars

\* self.on_end_of_epoch(epoch), then the next epoch
OnEndOfEpoch ==
    /\ pc = "on_end_of_epoch"
    /\ trace' = Append(trace, Hook("on_end_of_epoch", epoch, 0))
    /\ epoch' = epoch + 1
    /\ pc' = "for_epoch"
    /\ UNCHANGED <<loop, start_at, batch, interrupts>>
    /\ UNCHANGED datavars

\* self.on_end_of_training()
OnEndOfTraining ==
    /\ pc = "on_end_of_training"
    /\ trace' = Append(trace, Hook("on_end_of_training", 0, 0))
    /\ pc' = "done"
    /\ UNCHANGED <<loop, start_at, epoch, batch, interrupts>>
    /\ UNCHANGED datavars

\* the statements of the inner try block, of the outer try block outside the
\* inner one (the inner handler included), and of the rest of the function
\* (the outer handler included)
InInnerTry == pc \in {"on_start_of_batch", "on_end_of_batch"}
InOuterTry == pc \in {"on_start_of_epoch", "for_batch", "on_end_of_epoch", "except_batch"}
OutsideTry == pc \in {"on_start_of_training", "for_epoch", "on_end_of_training", "except_epoch"}

\* a KeyboardInterrupt is raised at the statement the loop stands at: control
\* goes to the handler of the innermost try around it, or out of the function
KeyboardInterrupt ==
    /\ InInnerTry \/ InOuterTry \/ OutsideTry
    /\ interrupts < MaxInterrupts
    /\ interrupts' = interrupts + 1
    /\ pc' = IF InInnerTry THEN "except_batch"
             ELSE IF InOuterTry THEN "except_epoch"
             ELSE "raised"
    /\ UNCHANGED <<loop, start_at, epoch, batch, trace>>
    /\ UNCHANGED datavars

\* except KeyboardInterrupt: self.on_keyboard_interrupt(epoch, batch); the
\* handler ends and the batch loop goes on with the next batch
ExceptBatch ==
    /\ pc = "except_batch"
    /\ trace' = Append(trace, Hook("on_keyboard_interrupt", epoch, batch))
    /\ batch' = batch + 1
    /\ pc' = "for_batch"
    /\ UNCHANGED <<loop, start_at, epoch, interrupts>>
    /\ UNCHANGED datavars

\* except KeyboardInterrupt: self.on_keyboard_interrupt(epoch); the handler
\* ends and the epoch loop goes on with the next epoch
ExceptEpoch ==
    /\ pc = "except_epoch"
    /\ trace' = Append(trace, Hook("on_keyboard_interrupt", epoch, 0))
    /\ epoch' = epoch + 1
    /\ pc' = "for_epoch"
    /\ UNCHANGED <<loop, start_at, batch, interrupts>>
    /\ UNCHANGED datavars

TrainNext ==
    \/ NewTrainLoop
    \/ CallTrainingLoop
    \/ OnStartOfTraining
    \/ ForEpoch
    \/ OnStartOfEpoch
    \/ ForBatch
    \/ OnStartOfBatch
    \/ OnEndOfBatch
    \/ OnEndOfEpoch
    \/ OnEndOfTraining
    \/ KeyboardInterrupt
    \/ ExceptBatch
    \/ ExceptEpoch

TrainSpec == Init /\ [][TrainNext]_vars

----------------------------------------------------------------------------
(* The specifications. *)

DataNext == Construct \/ ConstructAgain \/ GetItem

DataSpec == Init /\ [][DataNext]_vars

\* construction alone
SplitSpec == Init /\ [][Construct]_vars

----------------------------------------------------------------------------
(* Vocabulary of the properties. *)

Abs(x) == IF x < 0 THEN 0 - x ELSE x

\* the call was made and built an object without raising
Built == ds # << >> /\ ds[1].status = "ok"

CallHas(key) == call # << >> /\ key \in DOMAIN call[1].kwargs

\* the call gave a split of this kind, and the dict it gave
SplitCalled(kind) == CallHas("split") /\ call[1].kwargs["split"].kind = kind
CallItems == call[1].kwargs["split"].items

\* randomise was left out or given as False
NotRandomised == ~CallHas("randomise") \/ call[1].kwargs["randomise"] = FALSE

\* the records of the subsets of a superset, in subset order
RECURSIVE FlattenFrom(_, _)
FlattenFrom(subsets, i) ==
    IF i > Len(subsets) THEN << >> ELSE subsets[i].data \o FlattenFrom(subsets, i + 1)
Flatten(self) == FlattenFrom(self.data, 1)

Range(seq) == {seq[i] : i \in 1..Len(seq)}

\* the position of the subset called name among the subsets, 0 when there is none
SubsetAt(self, name) ==
    LET at == {i \in 1..Len(self.data) : self.data[i].name = Append(self.name, name)}
    IN IF at = {} THEN 0 ELSE CHOOSE i \in at : TRUE

----------------------------------------------------------------------------
(* The properties. *)

\* C1: split sizes sum to the total: whenever construction accepts a split, the
\* length of the resulting superset is the number of records supplied.
SplitSizesSumToTotal ==
    (Built /\ ds[1].is_superset) => DatasetLen(ds[1]) = call[1].n

\* C2: for an accepted integer split with counts totalling T over N records,
\* every named subset holds exactly the count given for it; if T < N one more
\* subset 'rest' holds exactly the N - T records left over; if T = N there is
\* no further subset.
IntSplitSubsetsHaveGivenSizes ==
    (Built /\ SplitCalled("int")) =>
        LET self == ds[1]
            n == call[1].n
            t == SumFrom(CallItems, 1)
        IN /\ \A i \in 1..Len(CallItems) :
                 /\ SubsetAt(self, CallItems[i].name) # 0
                 /\ Len(self.data[SubsetAt(self, CallItems[i].name)].data)
                        = CallItems[i].size
           /\ t < n =>
                 /\ Len(self.data) = Len(CallItems) + 1
                 /\ self.data[Len(self.data)].name = <<"d", "rest">>
                 /\ Range(self.data[Len(self.data)].data) = {Row(i) : i \in (t + 1)..n}
           /\ t = n => Len(self.data) = Len(CallItems)

\* C3: without randomise=True nothing is shuffled: an unsplit dataset holds the
\* records in input order, and the subsets of a split dataset, concatenated in
\* split order, give the input list.
NoShuffleUnlessRandomise ==
    (Built /\ NotRandomised) =>
        IF ds[1].is_superset
        THEN Flatten(ds[1]) = Records(call[1].n)
        ELSE ds[1].data = Records(call[1].n)

\* C4: the same call with randomise=True and the same seed builds the same
\* object (the same record order in the dataset and in every subset), whatever
\* the generator's state before each construction.
SameSeedSameOrder ==
    (/\ ds # << >>
     /\ ds2 # << >>
     /\ CallHas("randomise") /\ call[1].kwargs["randomise"] = TRUE
     /\ CallHas("seed"))
        => ds2 = ds

\* C5: for a superset of length L, every idx in 0..L-1 gives the record at
\* position idx of its subsets' records taken in subset order.
GetItemEnumeratesSubsets ==
    (/\ Built /\ ds[1].is_superset
     /\ got # << >>
     /\ got[1].idx < DatasetLen(ds[1]))
        => got[1].item = [kind |-> "value", val |-> Some(Flatten(ds[1])[got[1].idx + 1])]

\* the hooks of one epoch from batch b on, and of the epochs from e on
RECURSIVE BatchHooks(_, _, _)
BatchHooks(e, b, nbatches) ==
    IF b > nbatches THEN << >>
    ELSE <<Hook("on_start_of_batch", e, b), Hook("on_end_of_batch", e, b)>>
            \o BatchHooks(e, b + 1, nbatches)

RECURSIVE EpochHooks(_, _, _)
EpochHooks(e, nepochs, nbatches) ==
    IF e > nepochs THEN << >>
    ELSE <<Hook("on_start_of_epoch", e, 0)>>
            \o BatchHooks(e, 1, nbatches)
            \o <<Hook("on_end_of_epoch", e, 0)>>
            \o EpochHooks(e + 1, nepochs, nbatches)

ExpectedTrace(nepochs, nbatches) ==
    <<Hook("on_start_of_training", 0, 0)>>
        \o EpochHooks(1, nepochs, nbatches)
        \o <<Hook("on_end_of_training", 0, 0)>>

IsPrefix(s, t) == Len(s) <= Len(t) /\ SubSeq(t, 1, Len(s)) = s

\* the loop was started at epoch 1, batch 1 and no KeyboardInterrupt was raised
PlainRun ==
    /\ pc \notin {"none", "idle"}
    /\ start_at = [epoch |-> 1, batch |-> 1]
    /\ interrupts = 0

\* C6: a run started at epoch 1, batch 1 with E epochs of B batches and no
\* interrupt invokes exactly on_start_of_training, then per epoch
\* on_start_of_epoch, per batch on_start_of_batch and on_end_of_batch,
\* on_end_of_epoch, and at last on_end_of_training: the hooks invoked so far are
\* always the beginning of that trace, and all of it when the run is over.
HookTraceWithoutInterrupt ==
    PlainRun =>
        LET expected == ExpectedTrace(loop[1].nr_of_epochs, loop[1].train_loader)
        IN /\ IsPrefix(trace, expected)
           /\ pc = "done" => trace = expected

\* a run of 2 epochs of 2 batches or more that ended without an interrupt
FullRunWithoutInterrupt ==
    /\ PlainRun
    /\ pc = "done"
    /\ loop[1].nr_of_epochs >= 2
    /\ loop[1].train_loader >= 2

\* C7: once on_keyboard_interrupt was invoked, no on_start_of_batch and no
\* on_start_of_epoch is invoked in that run.
NoStartHookAfterKeyboardInterrupt ==
    \A i, j \in 1..Len(trace) :
        (i < j /\ trace[i].hook = "on_keyboard_interrupt")
            => trace[j].hook \notin {"on_start_of_batch", "on_start_of_epoch"}

\* the call asks for more than there is: counts above len(data), or fractions
\* above 1
AsksTooMuch ==
    \/ SplitCalled("int") /\ SumFrom(CallItems, 1) > call[1].n
    \/ SplitCalled("float") /\ SumFrom(CallItems, 1) > Denom

\* C8: a split that asks for more than is available fails with the assertion
\* before any subset is created: the data stay the list given, unshuffled,
\* is_superset stays False, no subset attribute is set.
OversizedSplitRejected ==
    AsksTooMuch =>
        /\ ds[1].status = "AssertionError"
        /\ ds[1].is_superset = FALSE
        /\ ds[1].attrs = {}
        /\ ds[1].data = Records(call[1].n)
        /\ rng = call[1].rng

\* a split of counts above len(data) was given for a list that is not empty
OversizedSplitCalled ==
    /\ SplitCalled("int")
    /\ call[1].n > 0
    /\ SumFrom(CallItems, 1) > call[1].n

\* the fractions the float split is converted from (the caller's, and 'rest')
Fractions == FloatSplitWithRest(CallItems)

\* the subsets are the fractions' subsets, one each, in order
SubsetsFollowFractions ==
    /\ Len(ds[1].data) = Len(Fractions)
    /\ \A i \in 1..Len(Fractions) :
          ds[1].data[i].name = <<"d", Fractions[i].name>>

====
